---- MODULE Spec2Model ----
(***************************************************************************)
(* Model of build_news.py: main() fetches articles from the news API,      *)
(* filters them (filter_ai_articles), renders one card per kept article    *)
(* (generate_html, which calls get_full_article for each), recreates the   *)
(* site folder and writes site/index.html.  The page carries a script      *)
(* that, on DOMContentLoaded, inserts the "Previously Seen Articles"       *)
(* divider and stores the first card's data-pub-date as 'lastSeen'.        *)
(*                                                                         *)
(* Python strings are sequences of tokens (short runs of characters), so   *)
(* that "x in s", lower(), join() and the timestamp parsers are computed   *)
(* on the text and not assumed.  A dictionary field is a tagged value:     *)
(* a string, None (JSON null) or missing (key absent).                     *)
(***************************************************************************)
EXTENDS Integers, Sequences, FiniteSets, TLC

VARIABLES
    pc,         \* position of main(): start, fetched, filtered, generated, cleaned, done, aborted
    apiKey,     \* os.environ has NEWS_API_KEY
    articles,   \* main: articles
    fetchErr,   \* exception caught by main around fetch_ai_news ("none" if none)
    filtered,   \* main: filtered_articles
    html,       \* main: html, as the sequence of cards generate_html emitted
    exc,        \* exception that escaped main ("none" if none)
    excIn,      \* function that raised it
    httpCalls,  \* network calls attempted so far (requests.get, Article.download)
    site,       \* site/index.html: whether it exists, and its cards
    lastSeen,   \* localStorage item 'lastSeen' of the viewer's browser
    loaded,     \* the DOMContentLoaded handler has run on the current page
    seenAtLoad, \* handler: const lastSeen, as read by the last run of the handler
    dividerInserted, \* handler: let dividerInserted, as the last run left it
    dividers    \* indices of the cards before which the handler inserted a divider

vars == <<pc, apiKey, articles, fetchErr, filtered, html, exc, excIn, httpCalls,
          site, lastSeen, loaded, seenAtLoad, dividerInserted, dividers>>

\* Largest number of articles the search API returns in the model (pageSize is 20).
MaxArticles == 2

(***************************************************************************)
(* Python values and strings                                               *)
(***************************************************************************)
Str(s) == [kind |-> "str", s |-> s]
None == [kind |-> "None", s |-> <<>>]
Missing == [kind |-> "missing", s |-> <<>>]

\* dict.get(key, default): the default only replaces an absent key, not a null value.
Get(article, key, default) ==
    IF article[key].kind = "missing" THEN default ELSE article[key]

\* str.lower(), token by token.
LowerTok(t) ==
    CASE t = "Machine" -> "machine"
      [] t = "Learning" -> "learning"
      [] t = "EconomicTimes" -> "economictimes"
      [] t = "IndiaTimes" -> "indiatimes"
      [] t = "Sports" -> "sports"
      [] OTHER -> t

Lower(s) == [i \in DOMAIN s |-> LowerTok(s[i])]

\* needle occurs in s at position i
OccursAt(s, needle, i) ==
    /\ i >= 1
    /\ i + Len(needle) - 1 <= Len(s)
    /\ \A k \in 1..Len(needle) : s[i + k - 1] = needle[k]

\* Python "needle in s" on strings: substring search.
Contains(s, needle) == \E i \in 1..(Len(s) + 1) : OccursAt(s, needle, i)

\* " ".join([a, b, c])
JoinSpace(a, b, c) == a \o <<" ">> \o b \o <<" ">> \o c

required_terms ==
    { <<"artificial", " ", "intelligence">>,
      <<"machine", " ", "learning">>,
      <<"deep", " ", "learning">>,
      <<"neural", " ", "network">> }

blocked_domains == { <<"economictimes", ".", "indiatimes", ".", "com">> }

BIZTOC == <<"biztoc", ".", "com">>

(***************************************************************************)
(* Timestamps                                                              *)
(***************************************************************************)
Hours == {"08", "09", "10"}

HourValue(h) == CASE h = "08" -> 8 [] h = "09" -> 9 [] h = "10" -> 10

\* "2024-01-01T<h>:00:00Z", the form publishedAt has in the API's answers; any other
\* string in the model is one that neither Python nor JavaScript parses
Iso(h) == <<"2024-01-01T", h, ":00:00", "Z">>

\* str.replace("Z", "+00:00")
ReplaceZ(s) == [i \in DOMAIN s |-> IF s[i] = "Z" THEN "+00:00" ELSE s[i]]

\* datetime.fromisoformat: ok and the time, or ValueError
FromIsoFormat(s) ==
    IF /\ Len(s) = 4
       /\ s[1] = "2024-01-01T"
       /\ s[2] \in Hours
       /\ s[3] = ":00:00"
       /\ s[4] = "+00:00"
    THEN [ok |-> TRUE, t |-> HourValue(s[2])]
    ELSE [ok |-> FALSE, t |-> 0]

\* JavaScript new Date(string): a time, or an Invalid Date (NaN)
JSDate(s) ==
    IF /\ Len(s) = 4
       /\ s[1] = "2024-01-01T"
       /\ s[2] \in Hours
       /\ s[3] = ":00:00"
       /\ s[4] = "Z"
    THEN [valid |-> TRUE, t |-> HourValue(s[2])]
    ELSE [valid |-> FALSE, t |-> 0]

\* JavaScript a < b on Dates: false as soon as one side is NaN
DateLess(a, b) == a.valid /\ b.valid /\ a.t < b.t

(***************************************************************************)
(* The article records the search API may return                           *)
(***************************************************************************)
Url(host, rest) == Str(<<"https://">> \o host \o rest)

Article(url, title, description, content, publishedAt) ==
    [url |-> url, title |-> title, description |-> description,
     content |-> content, publishedAt |-> publishedAt]

TitleAI == Str(<<"Machine", " ", "Learning">>)
TitleSports == Str(<<"Sports", " ", "recap">>)
TitlePlural == Str(<<"neural", " ", "network", "s">>)
Blurb == Str(<<"recap">>)

\* data.get("articles", []): the records of one answer are drawn from these.
Feed ==
    { Article(Url(<<"x", ".", "com">>, <<"/", "a">>), TitleAI, Blurb, Missing, Str(Iso("10"))),
      Article(Url(<<"x", ".", "com">>, <<"/", "b">>), TitleAI, None, Missing, Str(Iso("09"))),
      Article(Url(<<"x", ".", "com">>, <<"/", "c">>), TitlePlural, Blurb, Missing, Str(Iso("09"))),
      Article(Url(<<"x", ".", "com">>, <<"/", "d">>), TitleSports, Missing, Missing, Str(Iso("08"))),
      Article(Url(<<"x", ".", "com">>, <<"/", "e">>), TitleSports, Missing,
              Str(<<"deep", " ", "learning">>), Str(Iso("08"))),
      Article(Url(<<"EconomicTimes", ".", "IndiaTimes", ".", "com">>, <<"/", "a">>),
              TitleAI, Blurb, Missing, Str(Iso("10"))),
      Article(Url(<<"economictimes", ".", "indiatimes", ".", "com">>, <<"/", "biztoc", ".", "com">>),
              TitleAI, None, Missing, Str(Iso("09"))),
      Article(Url(<<"biztoc", ".", "com">>, <<"/", "a">>), TitleSports, None, Missing, Str(Iso("09"))),
      Article(Url(<<"biztoc", ".", "com">>,
                  <<"/", "?", "ref=", "economictimes", ".", "indiatimes", ".", "com">>),
              TitleAI, Blurb, Missing, Str(Iso("10"))),
      Article(Url(<<"x", ".", "com">>, <<"/", "biztoc", ".", "com">>), TitleSports, Blurb, Missing,
              Str(Iso("08"))),
      Article(Missing, TitleAI, Blurb, Missing, Str(Iso("09"))),
      Article(None, TitleAI, Blurb, Missing, Str(Iso("09"))),
      Article(Url(<<"x", ".", "com">>, <<"/", "f">>), TitleAI, Blurb, Missing, Missing),
      Article(Url(<<"x", ".", "com">>, <<"/", "g">>), TitleAI, Blurb, Missing, None),
      Article(Url(<<"x", ".", "com">>, <<"/", "h">>), TitleAI, Blurb, Missing,
              Str(<<"yesterday">>)) }

\* The answers of the search API: up to MaxArticles records, in any order.
Answers == UNION { [1..n -> Feed] : n \in 0..MaxArticles }

(***************************************************************************)
(* filter_ai_articles                                                      *)
(***************************************************************************)
\* url = article.get("url", "").lower(), for a url that is a string
ArticleUrl(article) == Lower(Get(article, "url", Str(<<>>)).s)

\* the two URL tests taken in the other order
UrlRuleBypassFirst(url) ==
    IF Contains(url, BIZTOC) THEN "keep"
    ELSE IF \E blocked \in blocked_domains : Contains(url, blocked) THEN "skip"
    ELSE "text"

\* lines 87-92: the blocklist test, then the biztoc.com test, both on the whole URL
UrlRule(url) ==
    IF \E blocked \in blocked_domains : Contains(url, blocked) THEN "skip"
    ELSE IF Contains(url, BIZTOC) THEN "keep"
    ELSE "text"

\* lines 93-99: the key-phrase test on the joined, lowered text fields;
\* str.join raises TypeError on a None item.
TextRule(article) ==
    LET title == Get(article, "title", Str(<<>>))
        description == Get(article, "description", Str(<<>>))
        content == Get(article, "content", Str(<<>>))
    IN  IF title.kind = "None" \/ description.kind = "None" \/ content.kind = "None"
        THEN "TypeError"
        ELSE LET text == Lower(JoinSpace(title.s, description.s, content.s))
             IN  IF \E term \in required_terms : Contains(text, term)
                 THEN "keep" ELSE "skip"

\* One iteration of the loop of filter_ai_articles: keep, skip, or the exception raised.
\* None has no lower(): AttributeError.
FilterStep(article) ==
    IF Get(article, "url", Str(<<>>)).kind = "None" THEN "AttributeError"
    ELSE LET rule == UrlRule(ArticleUrl(article))
         IN  IF rule = "text" THEN TextRule(article) ELSE rule

RECURSIVE FilterFrom(_, _, _)
FilterFrom(arts, i, acc) ==
    IF i > Len(arts) THEN [exc |-> "none", filtered |-> acc]
    ELSE LET r == FilterStep(arts[i])
         IN  CASE r = "keep" -> FilterFrom(arts, i + 1, Append(acc, arts[i]))
               [] r = "skip" -> FilterFrom(arts, i + 1, acc)
               [] OTHER -> [exc |-> r, filtered |-> <<>>]

filter_ai_articles(arts) == FilterFrom(arts, 1, <<>>)

(***************************************************************************)
(* get_full_article                                                        *)
(***************************************************************************)
Placeholder == <<"Full article not available. Please click 'Visit Original Article'.">>

Attribution(url) ==
    <<"This story appeared on <a href=\"">> \o url \o <<"\" target=\"_blank\">original source</a>.">>

\* What the network does to one call of get_full_article:
\*   aggregator: the Biztoc page fails to load, has no matching link, or has one;
\*   article: newspaper yields text, yields the empty text, or raises.
\* (when the aggregator step does not find a link the article step is never reached,
\*  so those combinations are represented once)
Outcomes ==
    { o \in [aggregator : {"error", "nolink", "found"}, article : {"text", "empty", "error"}] :
        o.aggregator = "found" \/ o.article = "error" }

\* lines 35-42
DirectPath(o, calls) ==
    CASE o.article = "text" -> [exc |-> "none", text |-> <<"article body">>, calls |-> calls + 1]
      [] o.article = "empty" -> [exc |-> "none", text |-> <<>>, calls |-> calls + 1]
      [] OTHER -> [exc |-> "none", text |-> Placeholder, calls |-> calls + 1]

\* lines 9-42.  "biztoc.com" in None raises TypeError outside every try.
get_full_article(article_url, o) ==
    IF article_url.kind # "str"
    THEN [exc |-> "TypeError", text |-> <<>>, calls |-> 0]
    ELSE IF Contains(article_url.s, BIZTOC)
         THEN IF o.aggregator = "found"
              THEN DirectPath(o, 1)
              ELSE [exc |-> "none", text |-> Attribution(article_url.s), calls |-> 1]
         ELSE DirectPath(o, 0)

(***************************************************************************)
(* generate_html                                                           *)
(***************************************************************************)
\* article.get(key): None for an absent key
GetOrNone(article, key) == Get(article, key, None)

\* lines 133-139: pub_date_iso is publishedAt when it parses, "" otherwise
\* (None has no replace(): AttributeError, caught like ValueError)
PubDateIso(article) ==
    LET p == GetOrNone(article, "publishedAt")
    IN  IF p.kind = "str" /\ FromIsoFormat(ReplaceZ(p.s)).ok THEN p.s ELSE <<>>

\* lines 135, 138: strftime('%Y-%m-%d %H:%M'), or the raw value, "Unknown Date" if absent
PubDate(article) ==
    LET p == GetOrNone(article, "publishedAt")
    IN  IF p.kind = "str" /\ FromIsoFormat(ReplaceZ(p.s)).ok
        THEN Str(<<"2024-01-01 ", p.s[2], ":00">>)
        ELSE Get(article, "publishedAt", Str(<<"Unknown Date">>))

\* lines 145-165: the card of one article
Card(article, text) ==
    [title |-> GetOrNone(article, "title"),
     url |-> GetOrNone(article, "url"),
     full_article_text |-> text,
     pub_date |-> PubDate(article),
     pub_date_iso |-> PubDateIso(article)]

RECURSIVE GenerateFrom(_, _, _, _, _)
GenerateFrom(arts, os, i, cards, calls) ==
    IF i > Len(arts) THEN [exc |-> "none", cards |-> cards, calls |-> calls]
    ELSE LET r == get_full_article(GetOrNone(arts[i], "url"), os[i])
         IN  IF r.exc # "none"
             THEN [exc |-> r.exc, cards |-> <<>>, calls |-> calls + r.calls]
             ELSE GenerateFrom(arts, os, i + 1,
                               Append(cards, Card(arts[i], r.text)), calls + r.calls)

\* lines 132-165; os[i] is what the network does to the i-th article's resolution
generate_html(arts, os) == GenerateFrom(arts, os, 1, <<>>, 0)

(***************************************************************************)
(* The script of the page (DOMContentLoaded handler)                       *)
(***************************************************************************)
Null == [kind |-> "null", s |-> <<>>]

\* JavaScript truthiness of localStorage.getItem's result: null and "" are falsy
Truthy(v) == v.kind = "str" /\ v.s # <<>>

\* line 181 without the test of dividerInserted
ShouldInsertEveryTime(pubDate, seenDate, inserted) == DateLess(pubDate, seenDate)

\* line 181: pubDate < new Date(lastSeen) && !dividerInserted
ShouldInsert(pubDate, seenDate, inserted) == DateLess(pubDate, seenDate) /\ ~inserted

\* line 180 reading an unparsable attribute as the epoch instead of NaN
CardDateEpoch(card) ==
    IF JSDate(card.pub_date_iso).valid THEN JSDate(card.pub_date_iso)
    ELSE [valid |-> TRUE, t |-> 0]

\* line 180: new Date(pubDateElem.getAttribute('data-pub-date'))
CardDate(card) == JSDate(card.pub_date_iso)

\* lines 177-189: cards.forEach
RECURSIVE ScanCards(_, _, _, _, _)
ScanCards(cards, i, seenDate, inserted, divs) ==
    IF i > Len(cards) THEN [inserted |-> inserted, dividers |-> divs]
    ELSE IF ShouldInsert(CardDate(cards[i]), seenDate, inserted)
         THEN ScanCards(cards, i + 1, seenDate, TRUE, divs \cup {i})
         ELSE ScanCards(cards, i + 1, seenDate, inserted, divs)

\* the flag carried over from the previous run of the handler
DividerInsertedCarriedOver == dividerInserted

\* line 175: let dividerInserted = false
DividerInsertedAtStart == FALSE

\* lines 191-194: the first card's data-pub-date replaces the stored item
NewLastSeen(cards, old) ==
    IF Len(cards) > 0 THEN Str(cards[1].pub_date_iso) ELSE old

(***************************************************************************)
(* State machine                                                           *)
(***************************************************************************)
\* What earlier visits may have left in localStorage: nothing, "", or a timestamp.
StoredValues == {Null, Str(<<>>)} \cup { Str(Iso(h)) : h \in Hours }

NoSite == [exists |-> FALSE, cards |-> <<>>]

Init ==
    /\ pc = "start"
    /\ apiKey \in BOOLEAN
    /\ articles = <<>>
    /\ fetchErr = "none"
    /\ filtered = <<>>
    /\ html = <<>>
    /\ exc = "none"
    /\ excIn = "none"
    /\ httpCalls = 0
    /\ site = NoSite
    /\ lastSeen \in StoredValues
    /\ loaded = FALSE
    /\ seenAtLoad = Null
    /\ dividerInserted = FALSE
    /\ dividers = {}

browser == <<lastSeen, loaded, seenAtLoad, dividerInserted, dividers>>

\* main without its try/except around fetch_ai_news
MainFetchFailedUncaught(e) ==
    /\ fetchErr' = e
    /\ articles' = <<>>
    /\ pc' = "aborted"
    /\ exc' = e
    /\ excIn' = "fetch_ai_news"

\* main, lines 210-212: the exception is printed and articles = []
MainFetchFailed(e) ==
    /\ fetchErr' = e
    /\ articles' = <<>>
    /\ pc' = "fetched"
    /\ UNCHANGED <<exc, excIn>>

\* fetch_ai_news, lines 48-50: no NEWS_API_KEY, ValueError before any request
FetchNoKey ==
    /\ pc = "start"
    /\ ~apiKey
    /\ MainFetchFailed("ValueError")
    /\ UNCHANGED <<apiKey, filtered, html, httpCalls, site, browser>>

\* fetch_ai_news, lines 60-61: the request fails or raise_for_status raises
FetchHttpError ==
    /\ pc = "start"
    /\ apiKey
    /\ httpCalls' = httpCalls + 1
    /\ MainFetchFailed("HTTPError")
    /\ UNCHANGED <<apiKey, filtered, html, site, browser>>

\* fetch_ai_news, lines 60-64: the request succeeds
FetchOk ==
    /\ pc = "start"
    /\ apiKey
    /\ \E answer \in Answers : articles' = answer
    /\ httpCalls' = httpCalls + 1
    /\ pc' = "fetched"
    /\ UNCHANGED <<apiKey, fetchErr, filtered, html, exc, excIn, site, browser>>

\* main, line 213
Filter ==
    /\ pc = "fetched"
    /\ LET r == filter_ai_articles(articles)
       IN  IF r.exc = "none"
           THEN /\ filtered' = r.filtered
                /\ pc' = "filtered"
                /\ UNCHANGED <<exc, excIn>>
           ELSE /\ pc' = "aborted"
                /\ exc' = r.exc
                /\ excIn' = "filter_ai_articles"
                /\ UNCHANGED filtered
    /\ UNCHANGED <<apiKey, articles, fetchErr, html, httpCalls, site, browser>>

\* main, line 214
Generate ==
    /\ pc = "filtered"
    /\ \E os \in [1..Len(filtered) -> Outcomes] :
         LET r == generate_html(filtered, os)
         IN  /\ httpCalls' = httpCalls + r.calls
             /\ IF r.exc = "none"
                THEN /\ html' = r.cards
                     /\ pc' = "generated"
                     /\ UNCHANGED <<exc, excIn>>
                ELSE /\ pc' = "aborted"
                     /\ exc' = r.exc
                     /\ excIn' = "get_full_article"
                     /\ UNCHANGED html
    /\ UNCHANGED <<apiKey, articles, fetchErr, filtered, site, browser>>

\* main, line 215: clean_site_folder("site"); the file system is taken to allow it
Clean ==
    /\ pc = "generated"
    /\ site' = NoSite
    /\ pc' = "cleaned"
    /\ UNCHANGED <<apiKey, articles, fetchErr, filtered, html, exc, excIn, httpCalls, browser>>

\* main, lines 216-219: index.html is written
WriteOk ==
    /\ pc = "cleaned"
    /\ site' = [exists |-> TRUE, cards |-> html]
    /\ pc' = "done"
    /\ UNCHANGED <<apiKey, articles, fetchErr, filtered, html, exc, excIn, httpCalls, browser>>

\* main, lines 220-221: the write raises, the error is printed
WriteFail ==
    /\ pc = "cleaned"
    /\ pc' = "done"
    /\ UNCHANGED <<apiKey, articles, fetchErr, filtered, html, exc, excIn, httpCalls, site,
                   browser>>

\* lines 172-195: a viewer opens (or reloads) the page
DOMContentLoaded ==
    /\ pc = "done"
    /\ site.exists
    /\ LET cards == site.cards
           r == IF Truthy(lastSeen)
                THEN ScanCards(cards, 1, JSDate(lastSeen.s), DividerInsertedAtStart, {})
                ELSE [inserted |-> DividerInsertedAtStart, dividers |-> {}]
       IN  /\ dividers' = r.dividers
           /\ dividerInserted' = r.inserted
           /\ lastSeen' = NewLastSeen(cards, lastSeen)
    /\ seenAtLoad' = lastSeen
    /\ loaded' = TRUE
    /\ UNCHANGED <<pc, apiKey, articles, fetchErr, filtered, html, exc, excIn, httpCalls, site>>

Next ==
    \/ FetchNoKey
    \/ FetchHttpError
    \/ FetchOk
    \/ Filter
    \/ Generate
    \/ Clean
    \/ WriteOk
    \/ WriteFail
    \/ DOMContentLoaded

Spec == Init /\ [][Next]_vars

(***************************************************************************)
(* Vocabulary of the properties                                            *)
(***************************************************************************)
Range(f) == { f[i] : i \in DOMAIN f }

Min(S) == CHOOSE x \in S : \A y \in S : x <= y

\* filter_ai_articles has returned
FilterReturned ==
    \/ pc \in {"filtered", "generated", "cleaned", "done"}
    \/ pc = "aborted" /\ excIn = "get_full_article"

\* generate_html has returned
Rendered == pc \in {"generated", "cleaned", "done"}

\* the host of a URL: what lies between the scheme and the first "/" or "?", case-folded
HostOf(article) ==
    IF article.url.kind # "str" \/ Len(article.url.s) < 2 THEN <<>>
    ELSE LET s == article.url.s
             ends == { i \in 2..Len(s) : s[i] \in {"/", "?"} }
             e == IF ends = {} THEN Len(s) + 1 ELSE Min(ends)
         IN  Lower(SubSeq(s, 2, e - 1))

IsWordTok(t) == t \notin {" ", ".", "/", "?"}

\* a field's text, an absent or null field counting as the empty string
FieldText(v) == IF v.kind = "str" THEN v.s ELSE <<>>

\* some keyword occurs in the case-folded title + description + content as whole words
HasWholeWordKeyword(article) ==
    LET text == Lower(JoinSpace(FieldText(article.title), FieldText(article.description),
                                FieldText(article.content)))
    IN  \E term \in required_terms : \E i \in 1..Len(text) :
           /\ OccursAt(text, term, i)
           /\ i = 1 \/ ~IsWordTok(text[i - 1])
           /\ i + Len(term) > Len(text) \/ ~IsWordTok(text[i + Len(term)])

\* publishedAt is absent, null, or not a timestamp
Unparsable(article) ==
    ~(article.publishedAt.kind = "str" /\ article.publishedAt.s \in { Iso(h) : h \in Hours })

\* the cards of the page whose data-pub-date is a time
Dated(cards) == { i \in DOMAIN cards : cards[i].pub_date_iso \in { Iso(h) : h \in Hours } }

TimeOf(card) == HourValue(card.pub_date_iso[2])

RECURSIVE Pick(_, _)
\* the subsequence of s at the indices in keep
Pick(s, keep) ==
    IF s = <<>> THEN <<>>
    ELSE LET front == Pick(SubSeq(s, 1, Len(s) - 1), keep)
         IN  IF Len(s) \in keep THEN Append(front, s[Len(s)]) ELSE front

(***************************************************************************)
(* Properties                                                              *)
(***************************************************************************)
\* C1: an article with no whole-word keyword in its text fields and whose host is not
\* biztoc.com is never kept by filter_ai_articles, and a null text field counts as the
\* empty string instead of raising.
C1_NoKeywordNotKept ==
    /\ FilterReturned =>
         \A i \in DOMAIN articles :
            (~HasWholeWordKeyword(articles[i]) /\ HostOf(articles[i]) # BIZTOC)
               => articles[i] \notin Range(filtered)
    /\ ~(pc = "aborted" /\ excIn = "filter_ai_articles" /\ exc = "TypeError")

\* C2: an article whose URL host is in the blocklist is absent from the list
\* filter_ai_articles returns, whatever its text.
C2_BlockedHostRejected ==
    FilterReturned =>
       \A i \in DOMAIN articles :
          HostOf(articles[i]) \in blocked_domains => articles[i] \notin Range(filtered)

C2_Witness ==
    /\ pc = "filtered"
    /\ filtered # <<>>
    /\ \E i \in DOMAIN articles :
          HostOf(articles[i]) \in blocked_domains /\ HasWholeWordKeyword(articles[i])

\* C3: an article whose URL host is biztoc.com is kept by filter_ai_articles, whatever
\* its text and whatever the path and query of its URL.
C3_BypassHostKept ==
    FilterReturned =>
       \A i \in DOMAIN articles :
          HostOf(articles[i]) = BIZTOC => articles[i] \in Range(filtered)

\* C4: get_full_article never raises and every text it returns is non-empty.
C4_ResolverTotalNonEmpty ==
    /\ ~(pc = "aborted" /\ excIn = "get_full_article")
    /\ \A i \in DOMAIN html : html[i].full_article_text # <<>>

\* C5: one run of the page's script inserts at most one divider; with a stored
\* watermark it stands before the first card strictly older than the watermark, and
\* there is none without a watermark or without such a card.
C5_AtMostOneDivider ==
    loaded =>
       LET cards == site.cards
           older == { i \in Dated(cards) :
                        /\ seenAtLoad.kind = "str"
                        /\ seenAtLoad.s \in { Iso(h) : h \in Hours }
                        /\ TimeOf(cards[i]) < HourValue(seenAtLoad.s[2]) }
       IN  /\ Cardinality(dividers) <= 1
           /\ dividers = IF older = {} THEN {} ELSE {Min(older)}

C5_Witness ==
    /\ loaded
    /\ seenAtLoad = Str(Iso("09"))
    /\ Len(site.cards) = 1
    /\ site.cards[1].pub_date_iso = Iso("08")
    /\ dividers = {1}

\* C6: when fetch_ai_news fails (no credential, or the HTTP call fails) main goes on
\* with an empty article list, renders and writes the page with no card, and never
\* aborts; without a credential no network call is made.
C6_FetchFailureContinues ==
    fetchErr # "none" =>
       /\ articles = <<>>
       /\ pc # "aborted"
       /\ exc = "none"
       /\ fetchErr = "ValueError" => httpCalls = 0
       /\ FilterReturned => filtered = <<>>
       /\ Rendered => html = <<>>
       /\ site.exists => site.cards = <<>>
       /\ pc # "done" => ENABLED (Filter \/ Generate \/ Clean \/ WriteOk)

C6_Witness ==
    /\ fetchErr = "ValueError"
    /\ pc = "done"
    /\ site.exists
    /\ httpCalls = 0

\* C7: no article makes the run abort, and the cards emitted are the accepted articles,
\* one card each, in the order fetched.
C7_OneCardPerAccepted ==
    /\ pc # "aborted"
    /\ FilterReturned =>
         filtered = Pick(articles, { i \in DOMAIN articles : FilterStep(articles[i]) = "keep" })
    /\ Rendered =>
         /\ Len(html) = Len(filtered)
         /\ \A i \in DOMAIN html : html[i].url = GetOrNone(filtered[i], "url")

C9_UnparsableNeutral ==
    /\ Rendered =>
         /\ Len(html) = Len(filtered)
         /\ \A i \in DOMAIN filtered : Unparsable(filtered[i]) => html[i].pub_date_iso = <<>>
    /\ (pc = "aborted" /\ excIn = "get_full_article") =>
         \E i \in DOMAIN filtered : filtered[i].url.kind # "str"
    /\ loaded =>
         LET cards == site.cards
             good == { i \in DOMAIN cards : ~Unparsable(filtered[i]) }
             ref == IF Truthy(seenAtLoad)
                    THEN ScanCards(Pick(cards, good), 1, JSDate(seenAtLoad.s), FALSE, {}).dividers
                    ELSE {}
         IN  /\ dividers \subseteq good
             /\ dividers = { i \in good : Cardinality({ k \in good : k <= i }) \in ref }

C9_Witness ==
    /\ loaded
    /\ Len(site.cards) = 2
    /\ Unparsable(filtered[1])
    /\ dividers = {2}

\* C10: after the script ran on a page with cards the stored watermark is the
\* timestamp of the newest article of that page; a page without cards leaves it alone.
C10_WatermarkIsNewest ==
    loaded =>
       LET cards == site.cards
       IN  IF cards = <<>> THEN lastSeen = seenAtLoad
           ELSE Dated(cards) # {} =>
                  \E i \in Dated(cards) :
                     /\ \A j \in Dated(cards) : TimeOf(cards[j]) <= TimeOf(cards[i])
                     /\ lastSeen = Str(cards[i].pub_date_iso)

====
